---- MODULE Spec2Model ----
(***************************************************************************)
(* Model of the role-based access control middleware of main.py            *)
(* (role_based_access_control, lines 50-80) together with the request      *)
(* life cycle around it: a request arrives, the middleware either answers   *)
(* it with a redirect or awaits call_next, the response goes back to the    *)
(* client, and the client may follow a redirect with the same credential.   *)
(*                                                                         *)
(* Strings the code inspects (paths, header values, tokens) are sequences   *)
(* of one-character strings, so that str.startswith and str.split are       *)
(* computed character by character.  An optional value (dict.get) is <<>>   *)
(* for None and <<v>> for a present value v.                                *)
(***************************************************************************)
EXTENDS Integers, Sequences, FiniteSets, TLC

VARIABLES calls, now, settings

vars == <<calls, now, settings>>

(* ------------------------------ bounds --------------------------------- *)

\* number of request slots (requests that can be in flight together)
MaxCalls == 2
\* the clock runs from 0 to MaxTime
MaxTime == 2
\* redirects a client follows before it gives up
MaxHops == 2

CallIds == 1..MaxCalls

(* ------------------------- Python value helpers ------------------------ *)

None == <<>>
Some(v) == <<v>>

\* Python truthiness of an Optional[str]: None and "" are falsy
Truthy(opt) == opt /= None /\ opt[1] /= <<>>

\* str.startswith(prefix)
StartsWith(s, prefix) ==
    /\ Len(prefix) <= Len(s)
    /\ SubSeq(s, 1, Len(prefix)) = prefix

\* index of the first occurrence of character ch in s at or after i, 0 if none
RECURSIVE Find(_, _, _)
Find(s, ch, i) ==
    IF i > Len(s) THEN 0
    ELSE IF s[i] = ch THEN i
    ELSE Find(s, ch, i + 1)

\* str.split(ch): the list of the pieces between the occurrences of ch
RECURSIVE Split(_, _)
Split(s, ch) ==
    LET k == Find(s, ch, 1)
    IN  IF k = 0 THEN <<s>>
        ELSE <<SubSeq(s, 1, k - 1)>> \o Split(SubSeq(s, k + 1, Len(s)), ch)

(* ------------------------------ strings -------------------------------- *)

EmptyStr == <<>>
Space == " "
BearerPrefix == <<"B", "e", "a", "r", "e", "r", " ">>
BasicPrefix == <<"B", "a", "s", "i", "c", " ">>

AdminPrefix == <<"/", "a", "d", "m", "i", "n", "/">>
ClientPrefix == <<"/", "c", "l", "i", "e", "n", "t", "/">>

\* a login redirect that names no path
LoginUrl_empty == <<>>

LoginUrl == <<"/", "l", "o", "g", "i", "n">>
ClientRequestsUrl ==
    <<"/", "c", "l", "i", "e", "n", "t", "/", "r", "e", "q", "u", "e", "s", "t", "s">>
AdminRequestsUrl ==
    <<"/", "a", "d", "m", "i", "n", "/", "r", "e", "q", "u", "e", "s", "t", "s">>

\* the list without its "/" entry
public_paths_no_root ==
    << <<"/", "a", "p", "i", "/">>,
       <<"/", "s", "t", "a", "t", "i", "c", "/">>,
       <<"/", "d", "o", "c", "s">>,
       <<"/", "r", "e", "d", "o", "c">>,
       <<"/", "l", "o", "g", "i", "n">>,
       <<"/", "h", "e", "a", "l", "t", "h">> >>

public_paths ==
    << <<"/", "a", "p", "i", "/">>,
       <<"/", "s", "t", "a", "t", "i", "c", "/">>,
       <<"/", "d", "o", "c", "s">>,
       <<"/", "r", "e", "d", "o", "c">>,
       <<"/", "l", "o", "g", "i", "n">>,
       <<"/", "h", "e", "a", "l", "t", "h">>,
       <<"/">> >>

\* a membership test in place of the prefix test
IsPublicPath_exact(path) ==
    \E i \in 1..Len(public_paths) : path = public_paths[i]

\* any(request.url.path.startswith(path) for path in public_paths)
IsPublicPath(path) ==
    \E i \in 1..Len(public_paths) : StartsWith(path, public_paths[i])

(* ------------------------------ requests ------------------------------- *)

\* a path under the prefix of the requests router (line 84)
ApiRequestAnything ==
    <<"/", "a", "p", "i", "/", "v", "1", "/", "r", "e", "q", "u", "e", "s", "t", "/",
      "a", "n", "y", "t", "h", "i", "n", "g">>

\* request.url.path of the requests offered to the server.  The empty path
\* (the url path of an asterisk-form target, "OPTIONS *") and "*" stand for
\* the request targets whose url path does not begin with "/".
Paths ==
    { EmptyStr,
      <<"*">>,
      <<"/">>,
      LoginUrl,
      <<"/", "h", "e", "a", "l", "t", "h">>,
      ApiRequestAnything,
      AdminRequestsUrl,
      ClientRequestsUrl,
      <<"/", "c", "l", "i", "e", "n", "t", "/", "r", "e", "q", "u", "e", "s", "t">> }

\* token strings a client may present
TokAdmin == <<"A">>
TokClient == <<"C">>
TokAdminShort == <<"X">>
TokNoRole == <<"N">>
TokForged == <<"F">>
TokMalformed == <<"M">>

Tokens == {TokAdmin, TokClient, TokAdminShort, TokNoRole, TokForged, TokMalformed}

\* values of the access_token cookie: absent, empty, or a token
Cookies == {None, Some(EmptyStr)} \cup {Some(t) : t \in Tokens}

\* values of the Authorization header
AuthHeaders ==
    { None,
      Some(BearerPrefix),
      Some(BasicPrefix \o TokAdmin),
      Some(BearerPrefix \o <<" ">> \o TokAdmin),
      Some(BearerPrefix \o TokAdmin \o <<" ">> \o TokClient) }
    \cup {Some(BearerPrefix \o t) : t \in {TokAdmin, TokClient, TokAdminShort, TokMalformed}}

(* ------------------------------ token codec ---------------------------- *)

\* settings.secret_key and settings.algorithm
SecretKey == "k1"
Algorithm == "HS256"

\* an expiry later than any clock value of the model
FutureExp == MaxTime + 1

\* what each well-formed token string carries: header algorithm, signing key
\* and payload.  TokMalformed is not a well-formed token.
WellFormed == Tokens \ {TokMalformed}

TokenContent(token) ==
    CASE token = TokAdmin ->
            [alg |-> "HS256", key |-> "k1",
             payload |-> [sub |-> "alice", role |-> "admin", exp |-> FutureExp]]
      [] token = TokClient ->
            [alg |-> "HS256", key |-> "k1",
             payload |-> [sub |-> "bob", role |-> "client", exp |-> FutureExp]]
      [] token = TokAdminShort ->
            [alg |-> "HS256", key |-> "k1",
             payload |-> [sub |-> "alice", role |-> "admin", exp |-> 1]]
      [] token = TokNoRole ->
            [alg |-> "HS256", key |-> "k1",
             payload |-> [sub |-> "carol", exp |-> FutureExp]]
      [] token = TokForged ->
            [alg |-> "HS256", key |-> "k2",
             payload |-> [sub |-> "mallory", role |-> "admin", exp |-> FutureExp]]

\* an except clause that misses the decoding failures
InvalidTokenErrors_narrow == {"ExpiredSignatureError", "InvalidSignatureError"}

\* exception classes of the jwt library caught at lines 75-78;
\* ExpiredSignatureError is itself an InvalidTokenError
InvalidTokenErrors ==
    {"ExpiredSignatureError", "DecodeError", "InvalidAlgorithmError",
     "InvalidSignatureError"}

Raise(exc) == [kind |-> exc, payload |-> [sub |-> "none"]]

\* jwt.decode(token, key, algorithms=[...]) evaluated at time clock
jwt_decode(token, key, algorithms, clock) ==
    IF token \notin WellFormed THEN Raise("DecodeError")
    ELSE LET c == TokenContent(token)
         IN  IF c.alg \notin algorithms THEN Raise("InvalidAlgorithmError")
             ELSE IF c.key /= key THEN Raise("InvalidSignatureError")
             ELSE IF "exp" \in DOMAIN c.payload /\ c.payload.exp <= clock
                  THEN Raise("ExpiredSignatureError")
             ELSE [kind |-> "ok", payload |-> c.payload]

\* dict.get(key): None when the key is missing
DictGet(d, k) == IF k \in DOMAIN d THEN Some(d[k]) ELSE None

(* ------------------------------ middleware ----------------------------- *)

RedirectResponse(url) == [kind |-> "Redirect", url |-> url]
\* the response the next handler produces, returned unchanged
NextResponse == [kind |-> "Next", url |-> EmptyStr]
\* an exception leaving the middleware: the server answers 500
ErrorResponse == [kind |-> "Error", url |-> EmptyStr]
NoResponse == [kind |-> "None", url |-> EmptyStr]

\* the Authorization header consulted first, the cookie as the fallback
GetToken_header_first(cookie, authorization) ==
    IF Truthy(authorization) /\ StartsWith(authorization[1], BearerPrefix)
    THEN [token |-> Some(Split(authorization[1], Space)[2]), read_header |-> TRUE]
    ELSE [token |-> cookie, read_header |-> TRUE]

\* lines 58-62: the token and whether the Authorization header was read
GetToken(cookie, authorization) ==
    IF ~Truthy(cookie)
    THEN [token |-> IF Truthy(authorization) /\ StartsWith(authorization[1], BearerPrefix)
                    THEN Some(Split(authorization[1], Space)[2])
                    ELSE cookie,
          read_header |-> TRUE]
    ELSE [token |-> cookie, read_header |-> FALSE]

\* lines 70-74: the role rules applied to a decoded payload
EnforceRole(path, payload) ==
    LET user_role == DictGet(payload, "role")
    IN  IF StartsWith(path, AdminPrefix) /\ user_role /= Some("admin")
        THEN [forward |-> FALSE, response |-> RedirectResponse(ClientRequestsUrl),
              stage |-> "role_admin"]
        ELSE IF StartsWith(path, ClientPrefix) /\ user_role /= Some("client")
        THEN [forward |-> FALSE, response |-> RedirectResponse(AdminRequestsUrl),
              stage |-> "role_client"]
        ELSE [forward |-> TRUE, response |-> NoResponse, stage |-> "allowed"]

\* lines 68-80: decode the token, enforce the role, map the exceptions
DecodeAndEnforce(path, token, cfg, clock) ==
    LET r == jwt_decode(token, cfg.secret_key, {cfg.algorithm}, clock)
    IN  IF r.kind = "ok" THEN EnforceRole(path, r.payload)
        ELSE IF r.kind = "ExpiredSignatureError"
        THEN [forward |-> FALSE, response |-> RedirectResponse(LoginUrl),
              stage |-> "expired"]
        ELSE IF r.kind \in InvalidTokenErrors
        THEN [forward |-> FALSE, response |-> RedirectResponse(LoginUrl),
              stage |-> "invalid"]
        ELSE [forward |-> FALSE, response |-> ErrorResponse, stage |-> "raised"]

\* lines 52-80: the middleware up to its return or its await of call_next
Middleware(path, cookie, authorization, cfg, clock) ==
    IF IsPublicPath(path)
    THEN [forward |-> TRUE, response |-> NoResponse, stage |-> "public",
          token |-> None, read_cookie |-> FALSE, read_header |-> FALSE,
          decoded |-> FALSE]
    ELSE LET g == GetToken(cookie, authorization)
         IN  IF ~Truthy(g.token)
             THEN [forward |-> FALSE, response |-> RedirectResponse(LoginUrl),
                   stage |-> "no_token", token |-> g.token, read_cookie |-> TRUE,
                   read_header |-> g.read_header, decoded |-> FALSE]
             ELSE LET d == DecodeAndEnforce(path, g.token[1], cfg, clock)
                  IN  [forward |-> d.forward, response |-> d.response,
                       stage |-> d.stage, token |-> g.token, read_cookie |-> TRUE,
                       read_header |-> g.read_header, decoded |-> TRUE]

(* -------------------------------- state -------------------------------- *)

IdleCall ==
    [pc |-> "idle", path |-> EmptyStr, cookie |-> None, authorization |-> None,
     hops |-> 0, clock |-> 0, stage |-> "none", token |-> None,
     read_cookie |-> FALSE, read_header |-> FALSE, decoded |-> FALSE,
     response |-> NoResponse, n_call_next |-> 0]

NewCall(path, cookie, authorization, hops) ==
    [IdleCall EXCEPT !.pc = "start", !.path = path, !.cookie = cookie,
                     !.authorization = authorization, !.hops = hops]

Init ==
    /\ calls = [c \in CallIds |-> IdleCall]
    /\ now = 0
    /\ settings = [secret_key |-> SecretKey, algorithm |-> Algorithm]

\* a request arrives while no other request is in flight
Receive(c) ==
    /\ \A d \in CallIds : calls[d].pc = "idle"
    /\ \E path \in Paths, cookie \in Cookies, authorization \in AuthHeaders :
          calls' = [calls EXCEPT ![c] = NewCall(path, cookie, authorization, 0)]
    /\ UNCHANGED <<now, settings>>

\* a middleware that replaces the process-wide secret while it handles a call
role_based_access_control_rekey(c) ==
    /\ calls[c].pc = "start"
    /\ LET q == calls[c]
           m == Middleware(q.path, q.cookie, q.authorization, settings, now)
       IN  calls' = [calls EXCEPT ![c] =
                [q EXCEPT !.pc = IF m.forward THEN "call_next" ELSE "done",
                          !.clock = now,
                          !.stage = m.stage,
                          !.token = m.token,
                          !.read_cookie = m.read_cookie,
                          !.read_header = m.read_header,
                          !.decoded = m.decoded,
                          !.response = m.response,
                          !.n_call_next = IF m.forward THEN q.n_call_next + 1
                                          ELSE q.n_call_next]]
    /\ settings' = [settings EXCEPT !.secret_key = "k2"]
    /\ UNCHANGED now

\* the middleware runs from line 52 to a return or to the await of call_next
role_based_access_control(c) ==
    /\ calls[c].pc = "start"
    /\ LET q == calls[c]
           m == Middleware(q.path, q.cookie, q.authorization, settings, now)
       IN  calls' = [calls EXCEPT ![c] =
                [q EXCEPT !.pc = IF m.forward THEN "call_next" ELSE "done",
                          !.clock = now,
                          !.stage = m.stage,
                          !.token = m.token,
                          !.read_cookie = m.read_cookie,
                          !.read_header = m.read_header,
                          !.decoded = m.decoded,
                          !.response = m.response,
                          !.n_call_next = IF m.forward THEN q.n_call_next + 1
                                          ELSE q.n_call_next]]
    /\ UNCHANGED <<now, settings>>

\* the next handler answers and the middleware returns its response
call_next(c) ==
    /\ calls[c].pc = "call_next"
    /\ calls' = [calls EXCEPT ![c] = [@ EXCEPT !.pc = "done", !.response = NextResponse]]
    /\ UNCHANGED <<now, settings>>

\* the client follows a redirect, presenting the same cookie and header
FollowRedirect(c) ==
    /\ calls[c].pc = "done"
    /\ calls[c].response.kind = "Redirect"
    /\ calls[c].hops < MaxHops
    /\ calls' = [calls EXCEPT ![c] =
            NewCall(calls[c].response.url, calls[c].cookie, calls[c].authorization,
                    calls[c].hops + 1)]
    /\ UNCHANGED <<now, settings>>

\* the exchange is over (a redirect is followed until the client gives up)
\* and the slot is free again
Close(c) ==
    /\ calls[c].pc = "done"
    /\ calls[c].response.kind = "Redirect" => calls[c].hops >= MaxHops
    /\ calls' = [calls EXCEPT ![c] = IdleCall]
    /\ UNCHANGED <<now, settings>>

\* the wall clock advances
Tick ==
    /\ now < MaxTime
    /\ now' = now + 1
    /\ UNCHANGED <<calls, settings>>

Next ==
    \/ \E c \in CallIds : Receive(c)
    \/ \E c \in CallIds : role_based_access_control(c)
    \/ \E c \in CallIds : call_next(c)
    \/ \E c \in CallIds : FollowRedirect(c)
    \/ \E c \in CallIds : Close(c)
    \/ Tick

Spec == Init /\ [][Next]_vars

\* the same server with its scheduling: a started middleware runs to its end,
\* the next handler answers, and the client follows the redirects it is sent
FairSpec ==
    /\ Spec
    /\ \A c \in CallIds : WF_vars(role_based_access_control(c))
    /\ \A c \in CallIds : WF_vars(call_next(c))
    /\ \A c \in CallIds : WF_vars(FollowRedirect(c))

(* --------------------------- concurrent requests ----------------------- *)

ConcPaths == {EmptyStr, AdminRequestsUrl}
ConcCookies == {None, Some(TokAdminShort)}
ConcAuthHeaders == {None, Some(BearerPrefix \o TokAdmin)}

\* a request arrives while others may be awaiting their next handler
ReceiveConc(c) ==
    /\ calls[c].pc = "idle"
    /\ \E path \in ConcPaths, cookie \in ConcCookies, authorization \in ConcAuthHeaders :
          calls' = [calls EXCEPT ![c] = NewCall(path, cookie, authorization, 0)]
    /\ UNCHANGED <<now, settings>>

ConcNext ==
    \/ \E c \in CallIds : ReceiveConc(c)
    \/ \E c \in CallIds : role_based_access_control(c)
    \/ \E c \in CallIds : call_next(c)
    \/ \E c \in CallIds : Close(c)
    \/ Tick

ConcSpec == Init /\ [][ConcNext]_vars

(* ------------------------- vocabulary of the claims -------------------- *)

\* the middleware has taken its decision for call c
Decided(c) == calls[c].pc \in {"call_next", "done"}
\* call c has been answered
Answered(c) == calls[c].pc = "done"
\* call c was handed to the next handler, once, and answered with its response
Forwarded(c) ==
    /\ Answered(c)
    /\ calls[c].response = NextResponse
    /\ calls[c].n_call_next = 1
\* call c was answered by the middleware with a redirect to url, without
\* the next handler being called
RedirectedTo(c, url) ==
    /\ Answered(c)
    /\ calls[c].response = RedirectResponse(url)
    /\ calls[c].n_call_next = 0
\* the decision taken for a decided call
Decision(q) == IF q.n_call_next > 0 THEN NextResponse ELSE q.response

BeginsWithSlash(path) == Len(path) >= 1 /\ path[1] = "/"
ProtectedPage(path) == StartsWith(path, AdminPrefix) \/ StartsWith(path, ClientPrefix)

\* the header has the form "Bearer <token>" and t is that token: the text
\* after "Bearer " up to the next space or the end, not empty
IsBearerOf(h, t) ==
    /\ h /= None
    /\ t /= EmptyStr
    /\ StartsWith(h[1], BearerPrefix \o t)
    /\ \A i \in 1..Len(t) : t[i] /= " "
    /\ \/ Len(h[1]) = Len(BearerPrefix) + Len(t)
       \/ h[1][Len(BearerPrefix) + Len(t) + 1] = " "
BearerForm(h) == \E t \in Tokens : IsBearerOf(h, t)

\* the credential a request carries: the cookie, else the bearer token
Carried(q) ==
    IF q.cookie /= None THEN q.cookie
    ELSE IF BearerForm(q.authorization)
         THEN Some(CHOOSE t \in Tokens : IsBearerOf(q.authorization, t))
         ELSE None
\* the carried credential as the token codec sees it when the call is decided
CarriedClaim(q) == jwt_decode(Carried(q)[1], SecretKey, {Algorithm}, q.clock)
CarriesValid(q) ==
    /\ Carried(q) /= None
    /\ Carried(q)[1] /= EmptyStr
    /\ CarriedClaim(q).kind = "ok"
CarriesInvalid(q) ==
    /\ Carried(q) /= None
    /\ Carried(q)[1] /= EmptyStr
    /\ CarriedClaim(q).kind /= "ok"

(* -------------------------------- claims ------------------------------- *)

\* C1: a request whose path starts with one of the public prefixes is
\* forwarded to the next handler whatever credential it carries (absent,
\* malformed, expired, valid with any role); it is never answered by the
\* middleware itself.
C1_PublicPathForwarded ==
    \A c \in CallIds :
        (/\ Decided(c)
         /\ \E i \in 1..Len(public_paths) : StartsWith(calls[c].path, public_paths[i]))
        => /\ calls[c].stage = "public"
           /\ calls[c].n_call_next = 1
           /\ Answered(c) => Forwarded(c)

C1_Witness ==
    \E c \in CallIds :
        /\ calls[c].path = ApiRequestAnything
        /\ calls[c].cookie = None
        /\ calls[c].authorization = None
        /\ Forwarded(c)

\* C2: a request to a protected page path (/admin/... or /client/...) that
\* carries neither an access_token cookie nor a Bearer Authorization header
\* is answered with a redirect to /login and is not forwarded.
C2_NoCredentialRedirectsToLogin ==
    \A c \in CallIds :
        (/\ Answered(c)
         /\ ProtectedPage(calls[c].path)
         /\ calls[c].cookie = None
         /\ ~BearerForm(calls[c].authorization))
        => RedirectedTo(c, LoginUrl)

\* C3: a request to a protected page path that carries an expired or
\* malformed token is redirected to /login, whatever role the token names.
C3_InvalidTokenRedirectsToLogin ==
    \A c \in CallIds :
        (/\ Answered(c)
         /\ ProtectedPage(calls[c].path)
         /\ CarriesInvalid(calls[c]))
        => RedirectedTo(c, LoginUrl)

\* C4: a request under /admin/ with a valid, unexpired token is forwarded
\* when the role is admin and redirected to /client/requests, without being
\* forwarded, when the role is anything else or missing.
C4_AdminPathsNeedAdminRole ==
    \A c \in CallIds :
        (/\ Answered(c)
         /\ StartsWith(calls[c].path, AdminPrefix)
         /\ CarriesValid(calls[c]))
        => IF DictGet(CarriedClaim(calls[c]).payload, "role") = Some("admin")
           THEN Forwarded(c)
           ELSE RedirectedTo(c, ClientRequestsUrl)

\* C5: a request under /client/ with a valid, unexpired token is forwarded
\* when the role is client and redirected to /admin/requests, without being
\* forwarded, when the role is anything else or missing.
C5_ClientPathsNeedClientRole ==
    \A c \in CallIds :
        (/\ Answered(c)
         /\ StartsWith(calls[c].path, ClientPrefix)
         /\ CarriesValid(calls[c]))
        => IF DictGet(CarriedClaim(calls[c]).payload, "role") = Some("client")
           THEN Forwarded(c)
           ELSE RedirectedTo(c, AdminRequestsUrl)

\* C6: every answered call ends in one outcome of the closed set {forward,
\* redirect to /login, redirect to /client/requests, redirect to
\* /admin/requests}, never in an error; the next handler is called at most
\* once per call and never on a call the middleware answers with a redirect.
C6_Outcomes ==
    { NextResponse, RedirectResponse(LoginUrl), RedirectResponse(ClientRequestsUrl),
      RedirectResponse(AdminRequestsUrl) }

C6_ClosedOutcomeSet ==
    \A c \in CallIds :
        /\ calls[c].n_call_next <= 1
        /\ calls[c].pc = "call_next" => calls[c].n_call_next = 1
        /\ Answered(c) =>
              /\ calls[c].response \in C6_Outcomes
              /\ calls[c].response = NextResponse <=> calls[c].n_call_next = 1
              /\ calls[c].response.kind = "Redirect" => calls[c].n_call_next = 0

\* a malformed token on a path that is not public is decoded and answered
\* with the login redirect
C6_Witness ==
    \E c \in CallIds :
        /\ ~IsPublicPath(calls[c].path)
        /\ calls[c].cookie = Some(TokMalformed)
        /\ calls[c].decoded
        /\ RedirectedTo(c, LoginUrl)

\* the decision taken for q is the one taken for the same request without
\* its Authorization header
DecidedOnCookieAlone(q) ==
    LET m == Middleware(q.path, q.cookie, None, settings, q.clock)
    IN  /\ m.stage = q.stage
        /\ m.token = q.token
        /\ m.forward = (q.n_call_next = 1)

\* C7 as stated: whenever the cookie is present its value is the credential
\* and the Authorization header is not consulted; with the cookie absent the
\* token of a "Bearer <token>" header is the credential, and any other or
\* missing header means no credential.
C7_CookiePresentWins ==
    \A c \in CallIds :
        (Decided(c) /\ calls[c].read_cookie) =>
            LET q == calls[c]
            IN  /\ q.cookie /= None =>
                      /\ q.token = q.cookie
                      /\ DecidedOnCookieAlone(q)
                /\ q.cookie = None =>
                      /\ q.read_header
                      /\ \A t \in Tokens :
                            IsBearerOf(q.authorization, t) => q.token = Some(t)
                      /\ ~BearerForm(q.authorization) => RedirectedTo(c, LoginUrl)

\* C7 (amended): a cookie that is present and not empty is the credential
\* and the Authorization header is not consulted; when the cookie is absent
\* or empty the header is consulted: the token of a "Bearer <token>" header
\* is the credential, and any other or missing header means no credential,
\* answered with the login redirect.
C7_CookieThenBearer ==
    \A c \in CallIds :
        (Decided(c) /\ calls[c].read_cookie) =>
            LET q == calls[c]
            IN  /\ Truthy(q.cookie) =>
                      /\ q.token = q.cookie
                      /\ ~q.read_header
                      /\ DecidedOnCookieAlone(q)
                /\ ~Truthy(q.cookie) =>
                      /\ q.read_header
                      /\ \A t \in Tokens :
                            IsBearerOf(q.authorization, t) => q.token = Some(t)
                      /\ ~BearerForm(q.authorization) =>
                            /\ ~q.decoded
                            /\ RedirectedTo(c, LoginUrl)

\* an invalid cookie next to a valid Bearer header is decided on the cookie
C7_Witness ==
    \E c \in CallIds :
        /\ calls[c].cookie = Some(TokMalformed)
        /\ calls[c].authorization = Some(BearerPrefix \o TokAdmin)
        /\ calls[c].read_cookie
        /\ ~calls[c].read_header
        /\ RedirectedTo(c, LoginUrl)

\* C9 as stated: every request is forwarded at the public-path check; no
\* credential is extracted or decoded and no redirect is issued.
C9_EveryRequestForwarded ==
    \A c \in CallIds :
        Decided(c) =>
            /\ calls[c].stage = "public"
            /\ ~calls[c].read_cookie
            /\ ~calls[c].read_header
            /\ ~calls[c].decoded
            /\ calls[c].response.kind /= "Redirect"

\* C9 (amended): every request whose path begins with "/" is forwarded at
\* the public-path check, with no credential extracted or decoded and no
\* redirect issued; and on no path at all is a role-mismatch redirect issued.
C9_SlashPathsForwarded ==
    \A c \in CallIds :
        /\ calls[c].stage \notin {"role_admin", "role_client"}
        /\ (Decided(c) /\ BeginsWithSlash(calls[c].path)) =>
              /\ calls[c].stage = "public"
              /\ ~calls[c].read_cookie
              /\ ~calls[c].read_header
              /\ ~calls[c].decoded
              /\ calls[c].token = None
              /\ calls[c].n_call_next = 1
              /\ calls[c].response.kind /= "Redirect"
              /\ Answered(c) => Forwarded(c)

\* a client token on an admin page is forwarded without being looked at
C9_Witness ==
    \E c \in CallIds :
        /\ calls[c].path = AdminRequestsUrl
        /\ calls[c].cookie = Some(TokClient)
        /\ calls[c].stage = "public"
        /\ Forwarded(c)

\* C10: a client that keeps its credential and follows the redirects of the
\* middleware reaches a forwarded request: every started call is eventually
\* forwarded, after at most one redirect, the followed request being let
\* through at the public-path check; and by the role rules the landing page
\* a valid admin or client token is sent to is one on which they allow it.
C10_ChainInv ==
    /\ \A c \in CallIds :
          /\ calls[c].hops <= 1
          /\ (calls[c].hops = 1 /\ Decided(c)) => calls[c].n_call_next = 1
    /\ \A t \in {TokAdmin, TokClient}, path \in {AdminRequestsUrl, ClientRequestsUrl} :
          LET r == EnforceRole(path, TokenContent(t).payload)
          IN  ~r.forward => EnforceRole(r.response.url, TokenContent(t).payload).forward

C10_RedirectChainEnds ==
    /\ []C10_ChainInv
    /\ \A c \in CallIds : (calls[c].pc = "start") ~> Forwarded(c)

\* a request without credential was redirected to /login and the followed
\* request was forwarded
C10_Witness ==
    \E c \in CallIds :
        /\ calls[c].hops = 1
        /\ calls[c].path = LoginUrl
        /\ Forwarded(c)

SameRequest(p, q) ==
    /\ p.path = q.path
    /\ p.cookie = q.cookie
    /\ p.authorization = q.authorization

\* C8 as stated: two calls with the same path and credential get the same
\* decision, however they are interleaved with other calls.
C8_SamePairSameDecision ==
    \A c, d \in CallIds :
        (Decided(c) /\ Decided(d) /\ SameRequest(calls[c], calls[d]))
        => Decision(calls[c]) = Decision(calls[d])

\* C8 (amended): the decision is a function of the call's own path and
\* credential and of the clock reading at which the token is decoded: two
\* calls with the same path and credential decided at the same clock reading
\* get the same decision, however they are interleaved with other calls;
\* handling a call changes no other call's state, and the configuration
\* (secret, algorithm) is never written.
C8_SameInputsInv ==
    \A c, d \in CallIds :
        (/\ Decided(c) /\ Decided(d)
         /\ SameRequest(calls[c], calls[d])
         /\ calls[c].clock = calls[d].clock)
        => /\ Decision(calls[c]) = Decision(calls[d])
           /\ calls[c].stage = calls[d].stage
           /\ calls[c].token = calls[d].token

C8_NoSharedWrite ==
    /\ settings' = settings
    /\ \A c \in CallIds :
          (calls[c].pc = "start" /\ calls'[c].pc /= "start")
          => /\ now' = now
             /\ \A d \in CallIds \ {c} : calls'[d] = calls[d]

C8_DecisionIsFunctionOfCall ==
    /\ []C8_SameInputsInv
    /\ [][C8_NoSharedWrite]_vars

\* two calls in flight with the same short-lived token on a path that is
\* not public, decided at the same clock reading while the token is valid
C8_Witness ==
    \E c, d \in CallIds :
        /\ c /= d
        /\ Decided(c) /\ Decided(d)
        /\ SameRequest(calls[c], calls[d])
        /\ calls[c].path = EmptyStr
        /\ calls[c].cookie = Some(TokAdminShort)
        /\ calls[c].clock = calls[d].clock
        /\ calls[c].decoded /\ calls[d].decoded
        /\ calls[c].n_call_next = 1 /\ calls[d].n_call_next = 1

====
